---- MODULE Spec2Model ----
(***************************************************************************)
(* Model of apteryx_transformers/models/autoencoders.py:                   *)
(* AbstractTransformerAutoencoder.__init__ (layer trainability selection), *)
(* toggle_layer_grad, get_trainer and train, and T5Autoencoder.__init__.   *)
(***************************************************************************)
EXTENDS Integers, Sequences, FiniteSets

\* ------------------------------------------------------------------ bounds
MaxLayers == 2        \* encoder / decoder depth ranges over 0..MaxLayers
ParamsPerLayer == 2   \* parameters owned by one transformer block
OtherParams == 2      \* parameters outside the two block lists (embedding, lm_head)
MaxN == 3             \* dataset sizes range over 0..MaxN
MaxCalls == 2         \* get_trainer()/train() calls made on one instance

VARIABLES
    variant,            \* "Base": a subclass calling the base constructor with its own
                        \* signature; "T5": T5Autoencoder.__init__
    model_config_dict,  \* the value bound to the base constructor's model_config_dict
    n_layers_to_train,  \* self.n_layers_to_train
    training_args_dict, \* the constructor argument training_args_dict
    layer_attr,         \* what self.model.base_model.encoder.layer resolves to: "absent"
                        \* (a T5 stack has .block and no .layer) or "encoder_block"
                        \* (a model class exposing the encoder blocks under both names)
    dataset,            \* len(self.dataset)
    train_pct,          \* self.train_pct as a fraction [num, den]
    pc,                 \* position of the constructing / calling thread
    error,              \* the exception that ended the last operation, or "none"
    n_enc_layers,       \* self.n_enc_layers
    n_dec_layers,       \* self.n_dec_layers
    n_enc_to_train,     \* local n_enc_to_train of __init__
    n_dec_to_train,     \* local n_dec_to_train of __init__
    enc,                \* requires_grad of every parameter of model.encoder.block
    dec,                \* requires_grad of every parameter of model.decoder.block
    others,             \* requires_grad of the model's remaining parameters
    training_args,      \* self.training_args
    trainer,            \* what the last get_trainer() call returned
    calls               \* number of get_trainer()/train() calls made

vars == << variant, model_config_dict, n_layers_to_train, training_args_dict,
           layer_attr, dataset, train_pct, pc, error, n_enc_layers, n_dec_layers,
           n_enc_to_train, n_dec_to_train, enc, dec, others, training_args,
           trainer, calls >>

inputs == << variant, model_config_dict, n_layers_to_train, training_args_dict,
             layer_attr, dataset, train_pct >>

flags == << enc, dec, others >>

\* ------------------------------------------------------------ small helpers
Max(a, b) == IF a >= b THEN a ELSE b

Min(a, b) == IF a <= b THEN a ELSE b

\* a block (or the parameter list outside the blocks) with every flag set to b
Layer(b) == [p \in 1..ParamsPerLayer |-> b]

\* torch.nn.Parameter is created with requires_grad = True
FreshBlocks(n) == [i \in 1..n |-> Layer(TRUE)]

FreshOthers == [p \in 1..OtherParams |-> TRUE]

\* ------------------------------------------------------- training-layer spec
IntSpec(n) == [kind |-> "int", n |-> n, e |-> 0, d |-> 0]

TupleSpec(e, d) == [kind |-> "tuple", n |-> 0, e |-> e, d |-> d]

\* default of the base constructor's n_layers_to_train
BaseDefaultSpec == IntSpec(0)

\* default of T5Autoencoder's n_layers_to_train
T5DefaultSpec == TupleSpec(-1, -1)

SpecChoices ==
    {BaseDefaultSpec, T5DefaultSpec}
    \cup {IntSpec(n) : n \in -1..(2 * MaxLayers + 1)}
    \cup {TupleSpec(e, d) : e \in -1..(MaxLayers + 1), d \in -1..(MaxLayers + 1)}

\* ------------------------------------------------------------ configuration
\* a model_config_dict that is a mapping fixes the depth of both stacks
ConfigMapping(E, D) == [is_mapping |-> TRUE, num_layers |-> E, num_decoder_layers |-> D]

\* T5Autoencoder passes block_size (an int) where model_config_dict is expected
ConfigBlockSize == [is_mapping |-> FALSE, num_layers |-> 0, num_decoder_layers |-> 0]

NoneArgs == [kind |-> "None", items |-> <<>>, attrs |-> <<>>]

DictArgs(items) == [kind |-> "dict", items |-> items, attrs |-> <<>>]

TrainingArgumentsObj(attrs) == [kind |-> "TrainingArguments", items |-> <<>>, attrs |-> attrs]

OverrideChoices ==
    { NoneArgs,
      DictArgs(<<>>),
      DictArgs(<< <<"num_train_epochs", "3">> >>),
      DictArgs(<< <<"fp16", "False">>, <<"not_a_training_argument", "x">> >>) }

TrainPctChoices == { [num |-> 4, den |-> 5], [num |-> 1, den |-> 3] }

NoTrainer == [status |-> "none", args |-> <<>>, n_train |-> 0, n_val |-> 0,
              train_dataset |-> <<>>, eval_dataset |-> <<>>]

\* ------------------------------------------------------------------- Init
Init ==
    /\ variant \in {"Base", "T5"}
    /\ model_config_dict \in
         IF variant = "T5" THEN {ConfigBlockSize}
         ELSE {ConfigMapping(E, D) : E \in 0..MaxLayers, D \in 0..MaxLayers}
    /\ n_layers_to_train \in SpecChoices
    /\ training_args_dict \in OverrideChoices
    /\ layer_attr \in {"absent", "encoder_block"}
    /\ dataset \in 0..MaxN
    /\ train_pct \in TrainPctChoices
    /\ pc = "new"
    /\ error = "none"
    /\ n_enc_layers = 0
    /\ n_dec_layers = 0
    /\ n_enc_to_train = 0
    /\ n_dec_to_train = 0
    /\ enc = <<>>
    /\ dec = <<>>
    /\ others = <<>>
    /\ training_args = NoneArgs
    /\ trainer = NoTrainer
    /\ calls = 0

\* --------------------------------------------------------- toggle_layer_grad
\* module[:-k] for k > 0: the indices of the first len(module) - k elements
HeadIndices(len, k) == 1..Max(len - k, 0)

\* module[-k:] for k > 0: the indices of the last min(k, len) elements
TailIndices(len, k) == (Max(len - k, 0) + 1)..len

\* lines 85-89: requires_grad = False on every parameter of module[:-n_to_train]
FreezeHead(blocks, n_to_train) ==
    [i \in 1..Len(blocks) |->
        IF i \in HeadIndices(Len(blocks), n_to_train) THEN Layer(FALSE) ELSE blocks[i]]

\* lines 90-94: requires_grad = True on every parameter of the last k blocks
EnableTail(blocks, k) ==
    [i \in 1..Len(blocks) |->
        IF i \in TailIndices(Len(blocks), k) THEN Layer(TRUE) ELSE blocks[i]]

\* The result of toggle_layer_grad(module, n_to_train) on model state (e0, d0):
\* the flags it leaves behind and the exception it raises, if any.  The OFF loop
\* walks the module it received; the ON loop walks
\* self.model.base_model.encoder.layer[-self.n_layers_to_train:], which raises
\* AttributeError when the encoder has no attribute `layer` (a T5 stack only has
\* `block`) and TypeError when self.n_layers_to_train is a tuple (unary minus).
toggle_layer_grad(module, n_to_train_arg, e0, d0) ==
    LET blocks == IF module = "encoder" THEN e0 ELSE d0
        n_layers == Len(blocks)
        n_to_train == IF n_to_train_arg = -1 THEN n_layers ELSE n_to_train_arg
        frozen == FreezeHead(blocks, n_to_train)
        e1 == IF module = "encoder" THEN frozen ELSE e0
        d1 == IF module = "decoder" THEN frozen ELSE d0
    IN  IF n_to_train > 0
        THEN IF layer_attr = "absent"
             THEN [enc |-> e1, dec |-> d1, error |-> "AttributeError"]
             ELSE IF n_layers_to_train.kind = "tuple"
             THEN [enc |-> e1, dec |-> d1, error |-> "TypeError"]
             ELSE [enc |-> EnableTail(e1, n_layers_to_train.n), dec |-> d1,
                   error |-> "none"]
        ELSE [enc |-> e0, dec |-> d0, error |-> "none"]

\* ------------------------------------------------------------- constructor
\* faulty variant of lines 51-52: the decoder count is not checked
TupleCountsValidEncoderOnly == n_layers_to_train.e <= n_enc_layers

\* lines 51-52
TupleCountsValid ==
    /\ n_layers_to_train.e <= n_enc_layers
    /\ n_layers_to_train.d <= n_dec_layers

\* line 58
IntCountValid == n_enc_layers + n_dec_layers >= n_layers_to_train.n

\* faulty variant of line 59: the decoder count is not capped at n_dec_layers
IntDecCountUncapped == n_layers_to_train.n

\* line 59
IntDecCount ==
    IF n_layers_to_train.n < n_dec_layers THEN n_layers_to_train.n ELSE n_dec_layers

\* line 60
IntEncCount == Max(n_layers_to_train.n - n_dec_layers, 0)

\* faulty variant of lines 67-69: only the parameters of the blocks are frozen
FreezeBlocksOnly ==
    [enc |-> [i \in 1..Len(enc) |-> Layer(FALSE)],
     dec |-> [i \in 1..Len(dec) |-> Layer(FALSE)],
     others |-> others]

\* lines 67-69: requires_grad = False on every parameter of the model
FreezeAllParameters ==
    [enc |-> [i \in 1..Len(enc) |-> Layer(FALSE)],
     dec |-> [i \in 1..Len(dec) |-> Layer(FALSE)],
     others |-> [p \in 1..Len(others) |-> FALSE]]

Raise(exc) ==
    /\ pc' = "failed"
    /\ error' = exc

\* lines 34-47: the config, the model and the layer counts.  `**model_config_dict`
\* raises TypeError when the value is not a mapping.
BuildModel ==
    /\ pc = "new"
    /\ IF model_config_dict.is_mapping
       THEN /\ enc' = FreshBlocks(model_config_dict.num_layers)
            /\ dec' = FreshBlocks(model_config_dict.num_decoder_layers)
            /\ others' = FreshOthers
            /\ n_enc_layers' = model_config_dict.num_layers
            /\ n_dec_layers' = model_config_dict.num_decoder_layers
            /\ pc' = "select"
            /\ error' = "none"
       ELSE /\ Raise("TypeError")
            /\ UNCHANGED << enc, dec, others, n_enc_layers, n_dec_layers >>
    /\ UNCHANGED << inputs, n_enc_to_train, n_dec_to_train, training_args, trainer, calls >>

\* lines 49-52
SelectTuple ==
    /\ pc = "select"
    /\ n_layers_to_train.kind = "tuple"
    /\ IF TupleCountsValid
       THEN /\ n_enc_to_train' = n_layers_to_train.e
            /\ n_dec_to_train' = n_layers_to_train.d
            /\ pc' = "toggle_enc"
            /\ error' = "none"
       ELSE /\ Raise("AssertionError")
            /\ UNCHANGED << n_enc_to_train, n_dec_to_train >>
    /\ UNCHANGED << inputs, flags, n_enc_layers, n_dec_layers, training_args, trainer, calls >>

\* lines 57-60
SelectInt ==
    /\ pc = "select"
    /\ n_layers_to_train.kind = "int"
    /\ n_layers_to_train.n > 0
    /\ IF IntCountValid
       THEN /\ n_dec_to_train' = IntDecCount
            /\ n_enc_to_train' = IntEncCount
            /\ pc' = "toggle_enc"
            /\ error' = "none"
       ELSE /\ Raise("AssertionError")
            /\ UNCHANGED << n_enc_to_train, n_dec_to_train >>
    /\ UNCHANGED << inputs, flags, n_enc_layers, n_dec_layers, training_args, trainer, calls >>

\* lines 65-69
FreezeAll ==
    /\ pc = "select"
    /\ n_layers_to_train.kind = "int"
    /\ n_layers_to_train.n <= 0
    /\ enc' = FreezeAllParameters.enc
    /\ dec' = FreezeAllParameters.dec
    /\ others' = FreezeAllParameters.others
    /\ pc' = "finish"
    /\ UNCHANGED << inputs, error, n_enc_layers, n_dec_layers, n_enc_to_train,
                    n_dec_to_train, training_args, trainer, calls >>

\* lines 54 and 62: self.toggle_layer_grad(self.model.encoder.block, n_enc_to_train, ...)
ToggleEncoder ==
    /\ pc = "toggle_enc"
    /\ LET r == toggle_layer_grad("encoder", n_enc_to_train, enc, dec)
       IN  /\ enc' = r.enc
           /\ dec' = r.dec
           /\ error' = r.error
           /\ pc' = IF r.error = "none" THEN "toggle_dec" ELSE "failed"
    /\ UNCHANGED << inputs, others, n_enc_layers, n_dec_layers, n_enc_to_train,
                    n_dec_to_train, training_args, trainer, calls >>

\* lines 55 and 63: self.toggle_layer_grad(self.model.decoder.block, n_dec_to_train)
ToggleDecoder ==
    /\ pc = "toggle_dec"
    /\ LET r == toggle_layer_grad("decoder", n_dec_to_train, enc, dec)
       IN  /\ enc' = r.enc
           /\ dec' = r.dec
           /\ error' = r.error
           /\ pc' = IF r.error = "none" THEN "finish" ELSE "failed"
    /\ UNCHANGED << inputs, others, n_enc_layers, n_dec_layers, n_enc_to_train,
                    n_dec_to_train, training_args, trainer, calls >>

\* lines 71-75
Finish ==
    /\ pc = "finish"
    /\ training_args' = training_args_dict
    /\ pc' = "done"
    /\ UNCHANGED << inputs, flags, error, n_enc_layers, n_dec_layers, n_enc_to_train,
                    n_dec_to_train, trainer, calls >>

\* -------------------------------------------------------------- get_trainer
\* lines 101-116: the fixed defaults (output_dir is derived from the model name
\* and today's date; its value is opaque here)
DefaultTrainingArguments ==
    [output_dir |-> "model-day-month-year",
     overwrite_output_dir |-> "True",
     num_train_epochs |-> "1",
     per_device_train_batch_size |-> "32",
     save_steps |-> "100",
     save_total_limit |-> "2",
     logging_steps |-> "20",
     dataloader_num_workers |-> "15",
     warmup_steps |-> "50",
     weight_decay |-> "0.01",
     evaluation_strategy |-> "steps",
     eval_steps |-> "100",
     fp16 |-> "True",
     gradient_accumulation_steps |-> "5"]

\* faulty variant of line 121: a key the defaults do not have is dropped
SetAttrKnownOnly(obj, k, v) == [x \in DOMAIN obj |-> IF x = k THEN v ELSE obj[x]]

\* line 121: setattr(default_training_args, k, v)
SetAttr(obj, k, v) == [x \in (DOMAIN obj) \cup {k} |-> IF x = k THEN v ELSE obj[x]]

\* lines 119-121: the loop over self.training_args.items()
RECURSIVE ApplyOverrides(_, _)
ApplyOverrides(obj, items) ==
    IF items = <<>> THEN obj
    ELSE ApplyOverrides(SetAttr(obj, Head(items)[1], Head(items)[2]), Tail(items))

\* line 117: truth value of self.training_args (None and {} are false, a
\* TrainingArguments object is true)
Truthy(args) ==
    \/ args.kind = "TrainingArguments"
    \/ args.kind = "dict" /\ args.items # <<>>

\* faulty variant of line 126: rounds up instead of truncating
NTrainRoundedUp(N, pct) == (N * pct.num + pct.den - 1) \div pct.den

\* line 126: int(N * self.train_pct)
NTrain(N, pct) == (N * pct.num) \div pct.den

\* line 127
NVal(N, n_train) == N - n_train

\* torch.utils.data.random_split draws a random permutation of the indices
randperm(N) ==
    {p \in [1..N -> 1..N] : \A i, j \in 1..N : i # j => p[i] # p[j]}

\* torch.utils.data.random_split: the subset indices[offset - length : offset]
SplitPart(perm, offset, length) == [i \in 1..length |-> perm[offset - length + i]]

\* lines 96-138 for one outcome `perm` of the random permutation: the new value
\* of self.training_args, the trainer returned and the exception raised
get_trainer(perm) ==
    LET N == dataset
        n_train == NTrain(N, train_pct)
        n_val == NVal(N, n_train)
        effective == IF Truthy(training_args)
                     THEN ApplyOverrides(DefaultTrainingArguments, training_args.items)
                     ELSE DefaultTrainingArguments
    IN  IF Truthy(training_args) /\ training_args.kind = "TrainingArguments"
        THEN \* 'TrainingArguments' object has no attribute 'items'
             [training_args |-> training_args, trainer |-> NoTrainer,
              error |-> "AttributeError"]
        ELSE IF n_train < 0 \/ n_val < 0 \/ n_train + n_val # N
        THEN \* random_split: sum of input lengths does not equal the dataset's
             [training_args |-> TrainingArgumentsObj(effective), trainer |-> NoTrainer,
              error |-> "ValueError"]
        ELSE [training_args |-> TrainingArgumentsObj(effective),
              trainer |-> [status |-> "ok", args |-> effective,
                           n_train |-> n_train, n_val |-> n_val,
                           train_dataset |-> SplitPart(perm, n_train, n_train),
                           eval_dataset |-> SplitPart(perm, n_train + n_val, n_val)],
              error |-> "none"]

\* lines 96-138
GetTrainer ==
    /\ pc = "done"
    /\ calls < MaxCalls
    /\ \E perm \in randperm(dataset) :
         LET r == get_trainer(perm)
         IN  /\ training_args' = r.training_args
             /\ trainer' = r.trainer
             /\ error' = r.error
    /\ calls' = calls + 1
    /\ UNCHANGED << inputs, flags, pc, n_enc_layers, n_dec_layers, n_enc_to_train,
                    n_dec_to_train >>

\* lines 140-142: get_trainer() followed by trainer.train(), which is the
\* external training loop and changes none of the modelled state
Train ==
    /\ pc = "done"
    /\ calls < MaxCalls
    /\ \E perm \in randperm(dataset) :
         LET r == get_trainer(perm)
         IN  /\ training_args' = r.training_args
             /\ trainer' = IF r.error = "none"
                           THEN [r.trainer EXCEPT !.status = "trained"]
                           ELSE r.trainer
             /\ error' = r.error
    /\ calls' = calls + 1
    /\ UNCHANGED << inputs, flags, pc, n_enc_layers, n_dec_layers, n_enc_to_train,
                    n_dec_to_train >>

Next ==
    \/ BuildModel
    \/ SelectTuple
    \/ SelectInt
    \/ FreezeAll
    \/ ToggleEncoder
    \/ ToggleDecoder
    \/ Finish
    \/ GetTrainer
    \/ Train

Spec == Init /\ [][Next]_vars

\* =================================================================== claims
AllTrainable(layer) == \A p \in DOMAIN layer : layer[p] = TRUE

AllFrozen(layer) == \A p \in DOMAIN layer : layer[p] = FALSE

\* exactly the last k blocks are fully trainable, every other block fully frozen
ExactlyLastTrainable(blocks, k) ==
    \A i \in 1..Len(blocks) :
        IF i > Len(blocks) - k THEN AllTrainable(blocks[i]) ELSE AllFrozen(blocks[i])

Ended == pc \in {"done", "failed"}

E == model_config_dict.num_layers

D == model_config_dict.num_decoder_layers

\* C1: a pair spec (e, d) with 0 <= e <= E and 0 <= d <= D makes construction end
\* with exactly the last e encoder blocks and the last d decoder blocks
\* trainable and every other block frozen (e = 0 or d = 0 included).
ClaimC1 ==
    ( /\ variant = "Base"
      /\ n_layers_to_train.kind = "tuple"
      /\ n_layers_to_train.e \in 0..E
      /\ n_layers_to_train.d \in 0..D
      /\ Ended )
    => /\ pc = "done"
       /\ ExactlyLastTrainable(enc, n_layers_to_train.e)
       /\ ExactlyLastTrainable(dec, n_layers_to_train.d)

\* C2: an integer spec n with 1 <= n <= E + D makes construction end with exactly
\* the last min(n, D) decoder blocks and the last max(n - D, 0) encoder blocks
\* trainable, all other blocks frozen.
ClaimC2 ==
    ( /\ variant = "Base"
      /\ n_layers_to_train.kind = "int"
      /\ n_layers_to_train.n \in 1..(E + D)
      /\ Ended )
    => /\ pc = "done"
       /\ ExactlyLastTrainable(dec, Min(n_layers_to_train.n, D))
       /\ ExactlyLastTrainable(enc, Max(n_layers_to_train.n - D, 0))

TooManyLayers ==
    \/ n_layers_to_train.kind = "int" /\ n_layers_to_train.n > E + D
    \/ n_layers_to_train.kind = "tuple"
         /\ (n_layers_to_train.e > E \/ n_layers_to_train.d > D)

\* C4: a spec asking for more layers than exist (n > E + D, or e > E, or d > D)
\* ends construction with the assertion failure, and every parameter still
\* carries the flag the freshly built model gave it.
TheoremC4 ==
    (variant = "Base" /\ TooManyLayers /\ pc \notin {"new", "select"})
    => /\ pc = "failed"
       /\ error = "AssertionError"
       /\ enc = FreshBlocks(E)
       /\ dec = FreshBlocks(D)
       /\ others = FreshOthers

WitnessC4 ==
    /\ pc = "failed"
    /\ error = "AssertionError"
    /\ n_layers_to_train.kind = "tuple"
    /\ n_layers_to_train.e \in 0..E
    /\ n_layers_to_train.d > D
    /\ E >= 1 /\ D >= 1
    /\ enc = FreshBlocks(E) /\ dec = FreshBlocks(D)

\* the number of blocks a pair count stands for: -1 is the whole section
CountOf(c, total) == IF c = -1 THEN total ELSE c

\* C5: in a pair spec a count of -1 trains the whole section while the other
\* section follows its own count; T5Autoencoder's default (-1, -1) leaves every
\* encoder and decoder block trainable.
ClaimC5 ==
    /\ ( /\ variant = "Base"
         /\ n_layers_to_train.kind = "tuple"
         /\ n_layers_to_train.e = -1 \/ n_layers_to_train.d = -1
         /\ n_layers_to_train.e \in -1..E
         /\ n_layers_to_train.d \in -1..D
         /\ Ended )
       => /\ pc = "done"
          /\ ExactlyLastTrainable(enc, CountOf(n_layers_to_train.e, E))
          /\ ExactlyLastTrainable(dec, CountOf(n_layers_to_train.d, D))
    /\ (variant = "T5" /\ n_layers_to_train = T5DefaultSpec /\ Ended)
       => /\ pc = "done"
          /\ \A i \in 1..Len(enc) : AllTrainable(enc[i])
          /\ \A i \in 1..Len(dec) : AllTrainable(dec[i])

\* what C8 says one toggle leaves in the module it received
ToggledWithinModule(blocks, n) ==
    [i \in 1..Len(blocks) |->
        IF i <= Len(blocks) - CountOf(n, Len(blocks)) THEN Layer(FALSE) ELSE Layer(TRUE)]

\* C8: toggle_layer_grad(module, n) freezes the first len(module) - n blocks and
\* enables the last n blocks of the module it received and changes no flag of
\* the other section nor of a parameter outside the block lists.
ClaimC8 ==
    [][ /\ pc = "toggle_enc"
          => /\ error' = "none"
             /\ enc' = ToggledWithinModule(enc, n_enc_to_train)
             /\ dec' = dec
             /\ others' = others
        /\ pc = "toggle_dec"
          => /\ error' = "none"
             /\ dec' = ToggledWithinModule(dec, n_dec_to_train)
             /\ enc' = enc
             /\ others' = others ]_vars

\* C9: whenever the constructor is about to toggle a section, the encoder count
\* is <= E and the decoder count is <= D; in the integer branch both counts are
\* non-negative and sum to n.
TheoremC9 ==
    pc \in {"toggle_enc", "toggle_dec"}
    => /\ n_enc_to_train <= n_enc_layers
       /\ n_dec_to_train <= n_dec_layers
       /\ n_layers_to_train.kind = "int"
            => /\ n_enc_to_train >= 0
               /\ n_dec_to_train >= 0
               /\ n_enc_to_train + n_dec_to_train = n_layers_to_train.n

WitnessC9 ==
    /\ pc = "toggle_enc"
    /\ n_layers_to_train.kind = "int"
    /\ n_enc_to_train >= 1
    /\ n_dec_layers >= 1
    /\ n_dec_to_train = n_dec_layers

Range(seq) == {seq[i] : i \in 1..Len(seq)}

OverrideKeys(overrides) == {overrides.items[i][1] : i \in 1..Len(overrides.items)}

OverrideValue(overrides, k) ==
    LET i == CHOOSE j \in 1..Len(overrides.items) : overrides.items[j][1] = k
    IN  overrides.items[i][2]

\* args is the fixed defaults with every key of the overrides replaced
IsDefaultsWithOverrides(args, overrides) ==
    /\ DOMAIN args = (DOMAIN DefaultTrainingArguments) \cup OverrideKeys(overrides)
    /\ \A k \in OverrideKeys(overrides) : args[k] = OverrideValue(overrides, k)
    /\ \A k \in (DOMAIN DefaultTrainingArguments) \ OverrideKeys(overrides) :
         args[k] = DefaultTrainingArguments[k]

\* C7: the first get_trainer call builds a trainer whatever keys the overrides
\* name, and the configuration of a built trainer is the defaults with each
\* override key replaced by the user's value, unknown keys included.
TheoremC7 ==
    /\ calls = 1 => (error = "none" /\ trainer.status # "none")
    /\ trainer.status # "none" => IsDefaultsWithOverrides(trainer.args, training_args_dict)

WitnessC7 ==
    /\ trainer.status = "ok"
    /\ "not_a_training_argument" \in OverrideKeys(training_args_dict)
    /\ trainer.args["not_a_training_argument"] = "x"
    /\ trainer.args["fp16"] = "False"
    /\ trainer.args["num_train_epochs"] = "1"

\* C10: every get_trainer / train call on a constructed instance succeeds and
\* builds its trainer from the defaults overridden by the mapping given at
\* construction, however many calls came before.
ClaimC10 ==
    calls >= 1
    => /\ error = "none"
       /\ trainer.status # "none"
       /\ IsDefaultsWithOverrides(trainer.args, training_args_dict)

====
